---- MODULE Spec2Model ----
(***************************************************************************)
(* The animation engine of src/src/components/AnimatedBackground.tsx: the  *)
(* gradient-noise field, the lattice of simulated points, the pointer      *)
(* tracker and the throttled requestAnimationFrame loop with its           *)
(* listeners and teardown.                                                 *)
(*                                                                         *)
(* Numbers.  The program computes with IEEE doubles; the model computes    *)
(* with integers in fixed point.  Unless said otherwise a length, a        *)
(* speed, an angle (radians) or a factor is held in thousandths:           *)
(* 16 px is 16000, friction 0.94 is 940.  Noise coordinates are held in    *)
(* millionths and the noise value in ten-thousandths.  Timestamps are      *)
(* whole milliseconds, surface sizes and pointer coordinates whole pixels. *)
(* Products are rounded to the nearest unit (RDiv), as a double operation  *)
(* rounds to the nearest representable value.                              *)
(***************************************************************************)
EXTENDS Integers, Sequences, FiniteSets, TLC

(***************************************************************************)
(* config (lines 123-136), in thousandths where the value is fractional.   *)
(***************************************************************************)
waveSpeedX == 8
waveSpeedY == 5
waveAmpX == 20
waveAmpY == 15
friction == 940
tension == 3
maxCursorMove == 60
xGap == 16
yGap == 40
autoWaveIntensity == 800
autoWaveSpeed == 1

(* tick: the minimum interval between accepted frames (ms), line 277 *)
minInterval == 33
(* tick: the smoothing factor of the pointer follower, 0.06, lines 284-291 *)
smoothing == 60
(* tick: the cap of the smoothed speed, line 292 *)
maxSpeed == 60
(* movePoints: the least interaction radius, line 216 *)
minRadius == 120
(* setLines: the padding added to the width and to the height, 159-160 *)
padWidth == 100
padHeight == 50

(***************************************************************************)
(* Arithmetic helpers.                                                     *)
(***************************************************************************)
Abs(n) == IF n < 0 THEN -n ELSE n

Min(a, b) == IF a < b THEN a ELSE b

Max(a, b) == IF a > b THEN a ELSE b

(* n / d rounded to the nearest integer, halves upwards: Math.round *)
RDiv(n, d) == (2 * n + d) \div (2 * d)

(* a pixel or unit count in thousandths *)
Fx(n) == n * 1000

(* the product of two numbers held in thousandths *)
Mul(a, b) == RDiv(a * b, 1000)

(* Math.floor(n / d) and Math.ceil(n / d) for integers n and d # 0 *)
FloorDiv(n, d) == IF d > 0 THEN n \div d ELSE (-n) \div (-d)

CeilDiv(n, d) == -FloorDiv(-n, d)

(* the largest r in lo .. hi with r * r <= n, by bisection; the function *)
(* halve binds the three numbers as values                              *)
RECURSIVE IsqrtIter(_, _, _)
IsqrtIter(n, lo, hi) ==
  LET halve[v \in Int, a \in Int, b \in Int] ==
        IF a >= b THEN a
        ELSE IF ((a + b + 1) \div 2) * ((a + b + 1) \div 2) <= v
             THEN IsqrtIter(v, (a + b + 1) \div 2, b)
             ELSE IsqrtIter(v, a, ((a + b + 1) \div 2) - 1)
  IN  halve[n, lo, hi]

(* the integer square root, n in 0 .. 2^31 - 1 *)
Isqrt(n) == IsqrtIter(n, 0, 46340)

(* Math.hypot of two lengths in thousandths, to a tenth of a unit *)
Hypot(dx, dy) ==
  100 * Isqrt(RDiv(dx, 100) * RDiv(dx, 100) + RDiv(dy, 100) * RDiv(dy, 100))

(* cos on [0, pi/2], by its Taylor polynomial of degree 8 *)
CosQ(r) ==
  LET x2 == RDiv(r * r, 1000)
      x4 == RDiv(x2 * x2, 1000)
      x6 == RDiv(x4 * x2, 1000)
      x8 == RDiv(x4 * x4, 1000)
  IN  1000 - RDiv(x2, 2) + RDiv(x4, 24) - RDiv(x6, 720) + RDiv(x8, 40320)

(* Math.cos of an angle in thousandths of a radian; the function fold *)
(* binds the angle reduced to [0, 2 pi) as a value                    *)
Cos(a) ==
  LET fold[r \in Int] ==
        LET h == IF r > 3142 THEN 6283 - r ELSE r
        IN  IF h > 1571 THEN -CosQ(3142 - h) ELSE CosQ(h)
  IN  fold[a % 6283]

(* Math.sin of an angle in thousandths of a radian *)
Sin(a) == Cos(a - 1571)

(* atan on [0, 1] (z in thousandths), by a polynomial accurate to 1e-3 *)
AtanQ(z) ==
  LET z2 == RDiv(z * z, 1000)
      q4 == 85 - RDiv(z2 * 21, 1000)
      q3 == 180 - RDiv(z2 * q4, 1000)
      q2 == 330 - RDiv(z2 * q3, 1000)
      q1 == 1000 - RDiv(z2 * q2, 1000)
  IN  RDiv(z * q1, 1000)

(* Math.atan2(dy, dx), in thousandths of a radian; atan2(0, 0) is 0 *)
Atan2(dy, dx) ==
  LET s == IF Max(Abs(dx), Abs(dy)) > 2000000 THEN 1000 ELSE 1
      ax == Abs(dx) \div s
      ay == Abs(dy) \div s
      base == IF ax = 0 /\ ay = 0 THEN 0
              ELSE IF ay <= ax THEN AtanQ(RDiv(ay * 1000, ax))
              ELSE 1571 - AtanQ(RDiv(ax * 1000, ay))
      half == IF dx < 0 THEN 3142 - base ELSE base
  IN  IF dy < 0 THEN -half ELSE half

(***************************************************************************)
(* Noise (lines 17-80).                                                    *)
(***************************************************************************)
(* the twelve gradient directions; dot2 reads x and y only *)
grad3 ==
  << [x |-> 1, y |-> 1, z |-> 0], [x |-> -1, y |-> 1, z |-> 0],
     [x |-> 1, y |-> -1, z |-> 0], [x |-> -1, y |-> -1, z |-> 0],
     [x |-> 1, y |-> 0, z |-> 1], [x |-> -1, y |-> 0, z |-> 1],
     [x |-> 1, y |-> 0, z |-> -1], [x |-> -1, y |-> 0, z |-> -1],
     [x |-> 0, y |-> 1, z |-> 1], [x |-> 0, y |-> -1, z |-> 1],
     [x |-> 0, y |-> 1, z |-> -1], [x |-> 0, y |-> -1, z |-> -1] >>

(* the base permutation this.p; p[i] of the source is pTable[i + 1] *)
pTable ==
  << 151, 160, 137, 91, 90, 15, 131, 13, 201, 95, 96, 53, 194, 233, 7, 225, 140, 36, 103, 30,
     69, 142, 8, 99, 37, 240, 21, 10, 23, 190, 6, 148, 247, 120, 234, 75, 0, 26, 197, 62, 94, 252, 219,
     203, 117, 35, 11, 32, 57, 177, 33, 88, 237, 149, 56, 87, 174, 20, 125, 136, 171, 168, 68, 175, 74,
     165, 71, 134, 139, 48, 27, 166, 77, 146, 158, 231, 83, 111, 229, 122, 60, 211, 133, 230, 220, 105,
     92, 41, 55, 46, 245, 40, 244, 102, 143, 54, 65, 25, 63, 161, 1, 216, 80, 73, 209, 76, 132, 187, 208,
     89, 18, 169, 200, 196, 135, 130, 116, 188, 159, 86, 164, 100, 109, 198, 173, 186, 3, 64, 52, 217,
     226, 250, 124, 123, 5, 202, 38, 147, 118, 126, 255, 82, 85, 212, 207, 206, 59, 227, 47, 16, 58, 17,
     182, 189, 28, 42, 223, 183, 170, 213, 119, 248, 152, 2, 44, 154, 163, 70, 221, 153, 101, 155, 167,
     43, 172, 9, 129, 22, 39, 253, 19, 98, 108, 110, 79, 113, 224, 232, 178, 185, 112, 104, 218, 246,
     97, 228, 251, 34, 242, 193, 238, 210, 144, 12, 191, 179, 162, 241, 81, 51, 145, 235, 249, 14, 239,
     107, 49, 192, 214, 31, 181, 199, 106, 157, 184, 84, 204, 176, 115, 121, 50, 45, 127, 4, 150, 254,
     138, 236, 205, 93, 222, 114, 67, 29, 24, 72, 243, 141, 128, 195, 78, 66, 215, 61, 156, 180 >>

RECURSIVE XorBits(_, _, _)
XorBits(a, b, n) ==
  IF n = 0 THEN 0
  ELSE (IF a % 2 = b % 2 THEN 0 ELSE 1) + 2 * XorBits(a \div 2, b \div 2, n - 1)

(* a ^ b on bytes *)
Xor8(a, b) == XorBits(a, b, 8)

(* The seed after lines 48-50.  The argument is the seed in 65536ths, so   *)
(* that a fraction of (0, 1) times 65536 is exact: v is k / 65536, k >= 0. *)
SeedWord(k) ==
  LET scaled == IF 0 < k /\ k < 65536 THEN k ELSE k \div 65536
  IN  IF scaled < 256 THEN scaled + 256 * scaled ELSE scaled

(* new Array(512), lines 42-43: no entry is set (-1, and no gradient) *)
Blank ==
  [perm |-> [i \in 0 .. 511 |-> -1],
   gradP |-> [i \in 0 .. 511 |-> [x |-> 0, y |-> 0, z |-> 0]]]

(* SeedOn with a fault: the loop mixes the seed into this.perm[i], the     *)
(* table of the previous seed, where the source reads this.p[i]            *)
SeedOnMixesPrior(prev, k) ==
  LET s == SeedWord(k)
      v(i) == IF i % 2 = 1 THEN Xor8(prev.perm[i], s % 256)
              ELSE Xor8(prev.perm[i], (s \div 256) % 256)
      perm == [i \in 0 .. 511 |-> v(i % 256)]
  IN  [perm |-> perm, gradP |-> [i \in 0 .. 511 |-> grad3[(perm[i] % 12) + 1]]]

(* seed() on an object whose tables are prev: the loop of lines 51-55      *)
(* assigns the entries i and i + 256 for i = 0 .. 255, the others stay     *)
SeedOn(prev, k) ==
  LET s == SeedWord(k)
      v(i) == IF i % 2 = 1 THEN Xor8(pTable[i + 1], s % 256)
              ELSE Xor8(pTable[i + 1], (s \div 256) % 256)
      assigned == (0 .. 255) \cup {i + 256 : i \in 0 .. 255}
      perm == [i \in 0 .. 511 |->
                IF i \in assigned THEN v(i % 256) ELSE prev.perm[i]]
  IN  [perm |-> perm,
       gradP |-> [i \in 0 .. 511 |->
                   IF i \in assigned THEN grad3[(perm[i] % 12) + 1]
                   ELSE prev.gradP[i]]]

(* new Noise(seed): the 512 entries of perm and gradP, indexed from 0 *)
Seed(k) == SeedOn(Blank, k)

(* Grad.dot2 *)
dot2(g, x, y) == g.x * x + g.y * y

(* fade with a fault: no easing, the interpolation is linear *)
fadeLinear(t) == t

(* fade(t), t and the result in ten-thousandths *)
fade(t) ==
  LET t3 == RDiv(RDiv(t * t, 10000) * t, 10000)
      inner == RDiv(t * (6 * t - 150000), 10000) + 100000
  IN  RDiv(t3 * inner, 10000)

(* lerp with a fault: the two ends are swapped *)
lerpSwapped(a, b, t) == RDiv((10000 - t) * b + t * a, 10000)

(* lerp(a, b, t), all in ten-thousandths *)
lerp(a, b, t) == RDiv((10000 - t) * a + t * b, 10000)

(* perlin2(x, y): x and y in millionths, the result in ten-thousandths *)
perlin2(n, x, y) ==
  LET X0 == FloorDiv(x, 1000000)
      Y0 == FloorDiv(y, 1000000)
      fx == RDiv(x - X0 * 1000000, 100)
      fy == RDiv(y - Y0 * 1000000, 100)
      X == X0 % 256
      Y == Y0 % 256
      n00 == dot2(n.gradP[X + n.perm[Y]], fx, fy)
      n01 == dot2(n.gradP[X + n.perm[Y + 1]], fx, fy - 10000)
      n10 == dot2(n.gradP[X + 1 + n.perm[Y]], fx - 10000, fy)
      n11 == dot2(n.gradP[X + 1 + n.perm[Y + 1]], fx - 10000, fy - 10000)
      u == fade(fx)
  IN  lerp(lerp(n00, n10, u), lerp(n01, n11, u), fade(fy))

(***************************************************************************)
(* The grid (setLines, lines 156-179).                                     *)
(***************************************************************************)
(* TotalLines with a fault: Math.floor for Math.ceil *)
TotalLinesFloor(width, cfg) == FloorDiv(width + padWidth, cfg.xGap)

(* totalLines and totalPoints, for a non-zero gap *)
TotalLines(width, cfg) == CeilDiv(width + padWidth, cfg.xGap)

TotalPoints(height, cfg) == CeilDiv(height + padHeight, cfg.yGap)

(* A gap of 0 makes the count Math.ceil(n / 0) = Infinity (n > 0): the     *)
(* loop over the columns never ends, nor does the loop over the points of  *)
(* the first column when the outer loop runs at all.                       *)
SetLinesDiverges(width, height, cfg) ==
  \/ cfg.xGap = 0
  \/ cfg.yGap = 0 /\ TotalLines(width, cfg) >= 0

(* BaseX with a fault: xStart is not halved *)
BaseXNotHalved(width, cfg, i) ==
  (width - cfg.xGap * TotalLines(width, cfg)) * 1000 + Fx(cfg.xGap * i)

(* xStart + xGap * i, in thousandths *)
BaseX(width, cfg, i) ==
  (width - cfg.xGap * TotalLines(width, cfg)) * 500 + Fx(cfg.xGap * i)

BaseY(height, cfg, j) ==
  (height - cfg.yGap * TotalPoints(height, cfg)) * 500 + Fx(cfg.yGap * j)

(* the point pushed at lines 170-175 *)
NewPoint(px, py) ==
  [x |-> px, y |-> py,
   wave |-> [x |-> 0, y |-> 0],
   cursor |-> [x |-> 0, y |-> 0, vx |-> 0, vy |-> 0]]

(* SetLines with a fault: a surface with a zero dimension gets no column *)
SetLinesEmptyOnZero(width, height, cfg) ==
  IF width = 0 \/ height = 0 THEN << >>
  ELSE [i \in 1 .. TotalLines(width, cfg) + 1 |->
         [j \in 1 .. TotalPoints(height, cfg) + 1 |->
           NewPoint(BaseX(width, cfg, i - 1), BaseY(height, cfg, j - 1))]]

(* setLines: i runs over 0 .. totalLines and j over 0 .. totalPoints *)
SetLines(width, height, cfg) ==
  [i \in 1 .. TotalLines(width, cfg) + 1 |->
    [j \in 1 .. TotalPoints(height, cfg) + 1 |->
      NewPoint(BaseX(width, cfg, i - 1), BaseY(height, cfg, j - 1))]]

(***************************************************************************)
(* The simulator (movePoints, lines 181-235).                              *)
(***************************************************************************)
(* Clamp with a fault: the lower bound (Math.max) is missing *)
ClampUpperOnly(v) == Min(Fx(maxCursorMove), v)

(* lines 231-232 *)
Clamp(v) == Min(Fx(maxCursorMove), Max(-Fx(maxCursorMove), v))

(* line 216: the interaction radius *)
Radius(m) == Max(Fx(minRadius), m.vs)

(* lines 200-210: the wave offset of a point at time t *)
Wave(p, n, time) ==
  LET baseMove == RDiv(perlin2(n, p.x + time * waveSpeedX, p.y + time * waveSpeedY) * 8, 10)
      autoWaveX == Mul(Sin(time * autoWaveSpeed + RDiv(p.x * 5, 1000)), autoWaveIntensity)
      autoWaveY == Mul(Cos(time * autoWaveSpeed + RDiv(p.y * 5, 1000)), autoWaveIntensity)
  IN  [x |-> Cos(baseMove) * waveAmpX + autoWaveX,
       y |-> Sin(baseMove) * waveAmpY + autoWaveY]

(* lines 213-223: the impulse (x and y) the pointer gives a point *)
Impulse(p, m) ==
  LET within[dist \in Int, l \in Int] ==
        LET push[f \in Int, k \in Int] ==
              [x |-> Mul(Mul(Cos(m.a), f), k), y |-> Mul(Mul(Sin(m.a), f), k)]
        IN  IF dist < l
            THEN push[Mul(Cos(RDiv(dist * 5, 1000)), 1000 - RDiv(dist * 1000, l)),
                      RDiv(RDiv(l, 10) * RDiv(m.vs, 10) * 3, 100000)]
            ELSE [x |-> 0, y |-> 0]
  IN  within[Hypot(p.x - m.sx, p.y - m.sy), Radius(m)]

(* Integrate with a fault: the velocity is not multiplied by friction *)
IntegrateNoFriction(c, imp) ==
  LET vx == c.vx + imp.x + Mul(0 - c.x, tension)
      vy == c.vy + imp.y + Mul(0 - c.y, tension)
  IN  [x |-> Clamp(c.x + vx), y |-> Clamp(c.y + vy), vx |-> vx, vy |-> vy]

(* lines 225-232: spring, friction, integration and clamp *)
Integrate(c, imp) ==
  LET move[vx \in Int, vy \in Int] ==
        [x |-> Clamp(c.x + vx), y |-> Clamp(c.y + vy), vx |-> vx, vy |-> vy]
      damp[vx0 \in Int, vy0 \in Int] ==
        move[Mul(vx0 + Mul(0 - c.x, tension), friction),
             Mul(vy0 + Mul(0 - c.y, tension), friction)]
      kick[i \in {imp}] == damp[c.vx + i.x, c.vy + i.y]
  IN  kick[imp]

(* the body of the inner forEach, lines 198-233 *)
MovePoint(p, m, n, time) ==
  [p EXCEPT !.wave = Wave(p, n, time), !.cursor = Integrate(p.cursor, Impulse(p, m))]

(* movePoints(time) *)
MovePoints(ls, m, n, time) ==
  [i \in DOMAIN ls |-> [j \in DOMAIN ls[i] |-> MovePoint(ls[i][j], m, n, time)]]

(***************************************************************************)
(* The renderer (moved and drawLines, lines 237-272).                      *)
(***************************************************************************)
(* moved(point, withCursor): the position rounded to one decimal *)
Moved(point, withCursor) ==
  LET x == point.x + point.wave.x + (IF withCursor THEN point.cursor.x ELSE 0)
      y == point.y + point.wave.y + (IF withCursor THEN point.cursor.y ELSE 0)
  IN  [x |-> RDiv(x, 100) * 100, y |-> RDiv(y, 100) * 100]

PathOp(name, pos) == [op |-> name, x |-> pos.x, y |-> pos.y]

(* ColumnOps with a fault: the guard of line 254 is missing, and moved()     *)
(* reads a field of undefined                                             *)
ColumnOpsNoGuard(points) ==
  IF Len(points) = 0 THEN << [op |-> "TypeError", x |-> 0, y |-> 0] >>
  ELSE << PathOp("moveTo", Moved(points[1], FALSE)) >>
       \o [idx \in 1 .. Len(points) |->
             PathOp("lineTo", Moved(points[idx], idx # Len(points)))]
       \o << PathOp("moveTo", Moved(points[Len(points)], FALSE)) >>

(* ColumnOps with a fault: the last point is drawn with its cursor offset, *)
(* as the others are                                                       *)
ColumnOpsLastDisplaced(points) ==
  IF Len(points) = 0 THEN << >>
  ELSE << PathOp("moveTo", Moved(points[1], FALSE)) >>
       \o [idx \in 1 .. Len(points) |-> PathOp("lineTo", Moved(points[idx], TRUE))]
       \o << PathOp("moveTo", Moved(points[Len(points)], TRUE)) >>

(* the body of the outer forEach, lines 253-269: the calls one column makes *)
ColumnOps(points) ==
  IF Len(points) = 0 THEN << >>
  ELSE << PathOp("moveTo", Moved(points[1], FALSE)) >>
       \o [idx \in 1 .. Len(points) |->
             PathOp("lineTo", Moved(points[idx], idx # Len(points)))]
       \o << PathOp("moveTo", Moved(points[Len(points)], FALSE)) >>

RECURSIVE AllColumnOps(_, _)
AllColumnOps(ls, i) ==
  IF i > Len(ls) THEN << >> ELSE ColumnOps(ls[i]) \o AllColumnOps(ls, i + 1)

(* drawLines: the calls made on the 2-D context, in order *)
DrawLines(ls, b) ==
  << [op |-> "clearRect", x |-> b.width, y |-> b.height],
     [op |-> "beginPath", x |-> 0, y |-> 0] >>
  \o AllColumnOps(ls, 1)
  \o << [op |-> "stroke", x |-> 0, y |-> 0] >>

(***************************************************************************)
(* Bounds of the model and the inputs it draws.                            *)
(***************************************************************************)
(* operations the host runs: mounts, frame callbacks, events, teardowns *)
MaxSteps == 5

(* what the host finds at the refs when the effect runs (lines 139-145) *)
Surfaces == {"ok", "noCanvas", "noContainer", "noContext"}

(* container.getBoundingClientRect(), whole pixels *)
Rects ==
  { [width |-> 0, height |-> 0, left |-> 10, top |-> 5],
    [width |-> 28, height |-> 70, left |-> 10, top |-> 5] }

(* clientX, clientY of a pointer or touch event *)
Pointers == { [x |-> 10, y |-> 5], [x |-> 50, y |-> 35] }

(* a touchmove event may carry no touch (e.touches[0] undefined) *)
NoTouch == [x |-> -1, y |-> -1]

(* e.touches[0] of a touchmove event *)
Touches == { [x |-> 50, y |-> 35], NoTouch }

(* milliseconds between two frame callbacks of the host *)
FrameGaps == {16, 33}

(* Math.random() at line 115, in 65536ths *)
RandomSeeds == {0, 12345}

(***************************************************************************)
(* The state.                                                              *)
(***************************************************************************)
VARIABLES
  surface,     \* what the refs hold: a valid surface or what is missing
  config,      \* config.xGap, config.yGap
  noise,       \* noiseRef.current: perm and gradP
  bounding,    \* boundingRef.current
  canvas,      \* the canvas: width, height and the calls of the last draw
  ctx,         \* ctxRef.current is set
  lines,       \* linesRef.current
  mouse,       \* mouseRef.current
  frameId,     \* frameIdRef.current, 0 for null
  lastTime,    \* lastTime of each run of the effect (a closure variable)
  listeners,   \* the window's listeners: type and the closure they belong to
  pending,     \* the host's scheduled frame callbacks: handle and closure
  nextHandle,  \* the next handle requestAnimationFrame returns
  now,         \* the host's clock, ms
  cleanup,     \* the closure of the teardown function React holds, 0 for none
  hung,        \* setLines loops for ever
  last,        \* history: the last operation
  mounted,     \* history: the effect has run and was not torn down since
  steps,       \* history: operations run so far
  stops,       \* history: teardown calls since the last mount, 2 for more
  frames,      \* history: the timestamps of the accepted frames of each closure
  inputSince,  \* history: updateMouse ran since the last accepted frame
  held,        \* history: mouseRef.current as the last accepted frame (or the
               \* construction) left it, clientX, clientY of the last
               \* updateMouse since, and how many there were (2 for more)
  probe        \* a caller of Noise.perlin2: the point sampled and the values

vars ==
  << surface, config, noise, bounding, canvas, ctx, lines, mouse, frameId,
     lastTime, listeners, pending, nextHandle, now, cleanup, hung, last,
     mounted, steps, stops, frames, inputSince, held, probe >>

(* mouseRef's initial value, lines 117-119 *)
InitialMouse ==
  [x |-> Fx(-10), y |-> 0, lx |-> 0, ly |-> 0, sx |-> 0, sy |-> 0,
   v |-> 0, vs |-> 0, a |-> 0, set |-> FALSE]

(* the noise object was seeded with k, as the n-th call of seed(), and no *)
(* call of perlin2 was made from outside movePoints since                *)
NoProbe(k, n) ==
  [seed |-> k, seeds |-> n, x |-> 0, y |-> 0, h |-> 0, at |-> 0, west |-> 0,
   east |-> 0, north |-> 0, south |-> 0, calls |-> 0]

(* no updateMouse since the pointer state m was left *)
Held(m) == [base |-> m, x |-> -1, y |-> -1, n |-> 0]

(* the state after the first render, before the effect runs (111-120) *)
InitWith(cfg) ==
  /\ surface \in Surfaces
  /\ config = cfg
  /\ \E k \in RandomSeeds : noise = Seed(k) /\ probe = NoProbe(k, 1)
  /\ bounding = [width |-> 0, height |-> 0, left |-> 0, top |-> 0]
  /\ canvas = [width |-> 300, height |-> 150, ops |-> << >>]
  /\ ctx = FALSE
  /\ lines = << >>
  /\ mouse = InitialMouse
  /\ frameId = 0
  /\ lastTime = << >>
  /\ listeners = {}
  /\ pending = {}
  /\ nextHandle = 1
  /\ now = 0
  /\ cleanup = 0
  /\ hung = FALSE
  /\ last = "render"
  /\ mounted = FALSE
  /\ steps = 0
  /\ stops = 0
  /\ frames = << >>
  /\ inputSince = FALSE
  /\ held = Held(InitialMouse)

Init == InitWith([xGap |-> xGap, yGap |-> yGap])

(***************************************************************************)
(* The effect (lines 138-352).                                             *)
(***************************************************************************)
(* Request with a fault: no callback is scheduled *)
RequestNothing(g, queue) == queue

(* requestAnimationFrame(tick) by closure g *)
Request(g, queue) == queue \cup {[id |-> nextHandle, closure |-> g]}

(* Resize with a fault: drawLines is called after setLines *)
ResizeAndDraw(r) ==
  /\ bounding' = r
  /\ lines' = IF SetLinesDiverges(r.width, r.height, config) THEN << >>
              ELSE SetLines(r.width, r.height, config)
  /\ hung' = SetLinesDiverges(r.width, r.height, config)
  /\ canvas' = [width |-> r.width, height |-> r.height,
                ops |-> DrawLines(lines', r)]

(* Resize with a fault: the points of the new grid take over the offsets    *)
(* and velocities of the points they replace                               *)
ResizeKeepsOffsets(r) ==
  /\ bounding' = r
  /\ canvas' = [width |-> r.width, height |-> r.height, ops |-> << >>]
  /\ hung' = SetLinesDiverges(r.width, r.height, config)
  /\ lines' =
       IF SetLinesDiverges(r.width, r.height, config) THEN << >>
       ELSE LET fresh == SetLines(r.width, r.height, config)
            IN  [i \in DOMAIN fresh |->
                  [j \in DOMAIN fresh[i] |->
                    IF i \in DOMAIN lines /\ j \in DOMAIN lines[i]
                    THEN [fresh[i][j] EXCEPT !.wave = lines[i][j].wave,
                                             !.cursor = lines[i][j].cursor]
                    ELSE fresh[i][j]]]

(* setSize and setLines, lines 149-179 and 302-305, for the rectangle r *)
Resize(r) ==
  /\ bounding' = r
  /\ canvas' = [width |-> r.width, height |-> r.height, ops |-> << >>]
  /\ IF SetLinesDiverges(r.width, r.height, config)
     THEN /\ lines' = << >>
          /\ hung' = TRUE
     ELSE /\ lines' = SetLines(r.width, r.height, config)
          /\ hung' = FALSE

(* SurfaceValid with a fault: the check of the 2-D context is missing *)
SurfaceValidNoContextCheck(sf) == sf \in {"ok", "noContext"}

(* lines 142 and 145: the effect goes on *)
SurfaceValid(sf) == sf = "ok"

(* useEffect's function: lines 139-147 and 334-342 *)
Effect(r) ==
  /\ ~hung
  /\ ~mounted
  /\ mounted' = TRUE
  /\ stops' = 0
  /\ IF ~SurfaceValid(surface)
     THEN /\ last' = "mountRefused"
          /\ cleanup' = 0
          /\ UNCHANGED << bounding, canvas, ctx, lines, hung, frameId, lastTime,
                          listeners, pending, nextHandle, frames >>
     ELSE /\ last' = "mount"
          /\ ctx' = (surface # "noContext")
          /\ Resize(r)
          /\ lastTime' = Append(lastTime, 0)
          /\ frames' = Append(frames, << >>)
          /\ IF SetLinesDiverges(r.width, r.height, config)
             THEN UNCHANGED << frameId, pending, nextHandle, listeners, cleanup >>
             ELSE LET g == Len(lastTime) + 1
                  IN  /\ pending' = Request(g, pending)
                      /\ frameId' = nextHandle
                      /\ nextHandle' = nextHandle + 1
                      /\ listeners' = listeners \cup
                           {[type |-> t, closure |-> g] :
                              t \in {"resize", "mousemove", "touchmove"}}
                      /\ cleanup' = g
  /\ UNCHANGED << surface, config, noise, mouse, now, inputSince, held, probe >>

(* React runs the effect *)
Mount(r) ==
  /\ steps < MaxSteps
  /\ steps' = steps + 1
  /\ Effect(r)

(***************************************************************************)
(* tick (lines 274-300).                                                   *)
(***************************************************************************)
(* Throttled with a fault: the timestamp is compared with the interval alone *)
ThrottledIgnoresLast(t, lt) == t < minInterval

(* line 277: the frame is dropped *)
Throttled(t, lt) == t - lt < minInterval

(* Advance with a fault: the Math.min of line 292 is missing *)
AdvanceNoCap(m) ==
  LET dx == m.x - m.lx
      dy == m.y - m.ly
      d == Hypot(dx, dy)
  IN  [m EXCEPT !.sx = m.sx + Mul(m.x - m.sx, smoothing),
                !.sy = m.sy + Mul(m.y - m.sy, smoothing),
                !.v = d,
                !.vs = m.vs + Mul(d - m.vs, smoothing),
                !.lx = m.x,
                !.ly = m.y,
                !.a = Atan2(dy, dx)]

(* lines 283-295: the pointer tracker's step *)
Advance(m) ==
  LET dx == m.x - m.lx
      dy == m.y - m.ly
      d == Hypot(dx, dy)
  IN  [m EXCEPT !.sx = m.sx + Mul(m.x - m.sx, smoothing),
                !.sy = m.sy + Mul(m.y - m.sy, smoothing),
                !.v = d,
                !.vs = Min(Fx(maxSpeed), m.vs + Mul(d - m.vs, smoothing)),
                !.lx = m.x,
                !.ly = m.y,
                !.a = Atan2(dy, dx)]

(* DropFrame with a fault: the return of line 279 is missing *)
DropFrameFallsThrough(cb) ==
  /\ last' = "drop"
  /\ mouse' = Advance(mouse)
  /\ lines' = MovePoints(lines, mouse', noise, now')
  /\ canvas' = [canvas EXCEPT !.ops = DrawLines(lines', bounding)]
  /\ lastTime' = [lastTime EXCEPT ![cb.closure] = now']
  /\ UNCHANGED << frames, inputSince, held >>

(* lines 277-280 *)
DropFrame(cb) ==
  /\ last' = "drop"
  /\ UNCHANGED << mouse, lines, canvas, lastTime, frames, inputSince, held >>

(* AcceptFrame with a fault: drawLines is called before movePoints *)
AcceptFrameDrawsFirst(cb, t) ==
  /\ last' = "accept"
  /\ lastTime' = [lastTime EXCEPT ![cb.closure] = t]
  /\ frames' = [frames EXCEPT ![cb.closure] = Append(@, t)]
  /\ mouse' = Advance(mouse)
  /\ inputSince' = FALSE
  /\ held' = Held(mouse')
  /\ canvas' = [canvas EXCEPT !.ops = DrawLines(lines, bounding)]
  /\ lines' = MovePoints(lines, mouse', noise, t)

(* lines 281-298 *)
AcceptFrame(cb, t) ==
  /\ last' = "accept"
  /\ lastTime' = [lastTime EXCEPT ![cb.closure] = t]
  /\ frames' = [frames EXCEPT ![cb.closure] = Append(@, t)]
  /\ mouse' = Advance(mouse)
  /\ inputSince' = FALSE
  /\ held' = Held(mouse')
  /\ lines' = MovePoints(lines, mouse', noise, t)
  /\ canvas' = IF ctx THEN [canvas EXCEPT !.ops = DrawLines(lines', bounding)]
               ELSE canvas

(* tick(t) as the callback cb, dt ms after the host's last callback *)
Frame(cb, dt) ==
  /\ ~hung
  /\ cb \in pending
  /\ now' = now + dt
  /\ IF Throttled(now', lastTime[cb.closure])
     THEN DropFrame(cb)
     ELSE AcceptFrame(cb, now')
  /\ pending' = Request(cb.closure, pending \ {cb})
  /\ frameId' = nextHandle
  /\ nextHandle' = nextHandle + 1
  /\ UNCHANGED << surface, config, noise, bounding, ctx, listeners, cleanup,
                  hung, mounted, stops, probe >>

(* the host runs the scheduled callback cb *)
Tick(cb, dt) ==
  /\ steps < MaxSteps
  /\ steps' = steps + 1
  /\ Frame(cb, dt)

(***************************************************************************)
(* The listeners (lines 302-332).                                          *)
(***************************************************************************)
Listening(type) == \E l \in listeners : l.type = type

(* UpdateMouse with a fault: the test of mouse.set is missing *)
UpdateMouseAlwaysSeeds(m, x, y, b) ==
  [m EXCEPT !.x = Fx(x - b.left), !.y = Fx(y - b.top),
            !.sx = Fx(x - b.left), !.sy = Fx(y - b.top),
            !.lx = Fx(x - b.left), !.ly = Fx(y - b.top), !.set = TRUE]

(* UpdateMouse with a fault: once the position has moved since the last *)
(* frame, further events are ignored                                    *)
UpdateMouseKeepsFirst(m, x, y, b) ==
  IF ~m.set
  THEN [m EXCEPT !.x = Fx(x - b.left), !.y = Fx(y - b.top),
                 !.sx = Fx(x - b.left), !.sy = Fx(y - b.top),
                 !.lx = Fx(x - b.left), !.ly = Fx(y - b.top), !.set = TRUE]
  ELSE IF m.x # m.lx \/ m.y # m.ly THEN m
  ELSE [m EXCEPT !.x = Fx(x - b.left), !.y = Fx(y - b.top)]

(* updateMouse(x, y) *)
UpdateMouse(m, x, y, b) ==
  LET mx == Fx(x - b.left)
      my == Fx(y - b.top)
  IN  IF ~m.set
      THEN [m EXCEPT !.x = mx, !.y = my, !.sx = mx, !.sy = my,
                     !.lx = mx, !.ly = my, !.set = TRUE]
      ELSE [m EXCEPT !.x = mx, !.y = my]

(* ResizeEvent with a fault: the handler puts the pointer state back to    *)
(* its initial value, but for the smoothed position                        *)
ResizeEventResetsPointer(r) ==
  /\ ~hung
  /\ Listening("resize")
  /\ last' = "resize"
  /\ Resize(r)
  /\ mouse' = [InitialMouse EXCEPT !.sx = mouse.sx, !.sy = mouse.sy]
  /\ UNCHANGED << surface, config, noise, ctx, frameId, lastTime,
                  listeners, pending, nextHandle, now, cleanup, mounted,
                  stops, frames, inputSince, held, probe >>

ResizeEvent(r) ==
  /\ ~hung
  /\ Listening("resize")
  /\ last' = "resize"
  /\ Resize(r)
  /\ UNCHANGED << surface, config, noise, ctx, mouse, frameId, lastTime,
                  listeners, pending, nextHandle, now, cleanup, mounted,
                  stops, frames, inputSince, held, probe >>

OnResize(r) ==
  /\ steps < MaxSteps
  /\ steps' = steps + 1
  /\ ResizeEvent(r)

MouseMoveEvent(e) ==
  /\ ~hung
  /\ Listening("mousemove")
  /\ last' = "mousemove"
  /\ mouse' = UpdateMouse(mouse, e.x, e.y, bounding)
  /\ inputSince' = TRUE
  /\ held' = [held EXCEPT !.x = e.x, !.y = e.y, !.n = Min(@ + 1, 2)]
  /\ UNCHANGED << surface, config, noise, bounding, canvas, ctx, lines,
                  frameId, lastTime, listeners, pending, nextHandle, now,
                  cleanup, hung, mounted, stops, frames, probe >>

OnMouseMove(e) ==
  /\ steps < MaxSteps
  /\ steps' = steps + 1
  /\ MouseMoveEvent(e)

TouchMoveEvent(touch) ==
  /\ ~hung
  /\ Listening("touchmove")
  /\ last' = IF touch = NoTouch THEN "touchmoveNoTouch" ELSE "touchmove"
  /\ mouse' = IF touch = NoTouch THEN mouse
              ELSE UpdateMouse(mouse, touch.x, touch.y, bounding)
  /\ inputSince' = (inputSince \/ touch # NoTouch)
  /\ held' = IF touch = NoTouch THEN held
             ELSE [held EXCEPT !.x = touch.x, !.y = touch.y, !.n = Min(@ + 1, 2)]
  /\ UNCHANGED << surface, config, noise, bounding, canvas, ctx, lines,
                  frameId, lastTime, listeners, pending, nextHandle, now,
                  cleanup, hung, mounted, stops, frames, probe >>

OnTouchMove(touch) ==
  /\ steps < MaxSteps
  /\ steps' = steps + 1
  /\ TouchMoveEvent(touch)

(***************************************************************************)
(* The teardown function the effect returns (lines 344-351).               *)
(***************************************************************************)
(* Cancel with a fault: the pending callback is left scheduled *)
CancelNothing(id, queue) == queue

(* Cancel with a fault: the handle before the one given is cancelled, as *)
(* if tick had not stored the handle of its own request                 *)
CancelPrevious(id, queue) == {cb \in queue : cb.id # id - 1}

(* cancelAnimationFrame(id) *)
Cancel(id, queue) == {cb \in queue : cb.id # id}

(* RemoveListeners with a fault: each call detaches one listener only *)
RemoveOneListener(ls, g) ==
  IF \E l \in ls : l.closure = g
  THEN ls \ {CHOOSE l \in ls : l.closure = g}
  ELSE ls

(* the three removeEventListener calls of closure g, lines 345-347 *)
RemoveListeners(ls, g) == {l \in ls : l.closure # g}

Teardown ==
  /\ ~hung
  /\ mounted \/ cleanup # 0
  /\ stops' = Min(stops + 1, 2)
  /\ mounted' = FALSE
  /\ last' = "cleanup"
  /\ IF cleanup = 0
     THEN UNCHANGED << listeners, pending >>
     ELSE /\ listeners' = RemoveListeners(listeners, cleanup)
          /\ pending' = IF frameId # 0 THEN Cancel(frameId, pending) ELSE pending
  /\ UNCHANGED << surface, config, noise, bounding, canvas, ctx, lines, mouse,
                  frameId, lastTime, nextHandle, now, cleanup, hung, frames,
                  inputSince, held, probe >>

(* React runs the teardown function *)
Cleanup ==
  /\ steps < MaxSteps
  /\ steps' = steps + 1
  /\ Teardown

Next ==
  \/ \E r \in Rects : Mount(r)
  \/ \E cb \in pending, dt \in FrameGaps : Tick(cb, dt)
  \/ \E r \in Rects : OnResize(r)
  \/ \E e \in Pointers : OnMouseMove(e)
  \/ \E t \in Touches : OnTouchMove(t)
  \/ Cleanup

Spec == Init /\ [][Next]_vars

(***************************************************************************)
(* The same program with the gaps of its configuration drawn from a set:   *)
(* setLines as a function of the surface size and of both gaps.            *)
(***************************************************************************)
GapConfigs ==
  { [xGap |-> xGap, yGap |-> yGap], [xGap |-> 48, yGap |-> 30],
    [xGap |-> -16, yGap |-> 40], [xGap |-> 16, yGap |-> -40],
    [xGap |-> 0, yGap |-> 40], [xGap |-> 16, yGap |-> 0],
    [xGap |-> -16, yGap |-> 0] }

InitConfig == \E cfg \in GapConfigs : InitWith(cfg)

SpecConfig == InitConfig /\ [][Next]_vars

(***************************************************************************)
(* The program in the middle of a run.  The pointer has been moving to the *)
(* right at 60 px a frame for long (the follower trails it by 940 px, the  *)
(* smoothed speed is at its cap), and the points within the interaction    *)
(* radius of the follower carry a displacement at or near the clamp, some  *)
(* still moving outwards.  A frame was just accepted at 1000 ms.           *)
(***************************************************************************)
MidRunMouse ==
  [x |-> Fx(970), y |-> Fx(25), lx |-> Fx(970), ly |-> Fx(25),
   sx |-> Fx(30), sy |-> Fx(25), v |-> Fx(60), vs |-> Fx(maxSpeed),
   a |-> 0, set |-> TRUE]

MidRunCursors ==
  { [x |-> 0, y |-> 0, vx |-> 0, vy |-> 0],
    [x |-> 59000, y |-> -59000, vx |-> 9000, vy |-> -9000],
    [x |-> -60000, y |-> 60000, vx |-> -3000, vy |-> 2000] }

MidRunLines(r, n, c) ==
  LET ls == SetLines(r.width, r.height, [xGap |-> xGap, yGap |-> yGap])
      near(p) == Hypot(p.x - MidRunMouse.sx, p.y - MidRunMouse.sy) < Fx(minRadius)
  IN  [i \in DOMAIN ls |->
        [j \in DOMAIN ls[i] |->
          [ls[i][j] EXCEPT !.wave = Wave(ls[i][j], n, 1000),
                           !.cursor = IF near(ls[i][j]) THEN c ELSE @]]]

InitMidRun ==
  \E r \in Rects, k \in RandomSeeds, c \in MidRunCursors :
    /\ surface = "ok"
    /\ config = [xGap |-> xGap, yGap |-> yGap]
    /\ noise = Seed(k)
    /\ bounding = r
    /\ lines = MidRunLines(r, Seed(k), c)
    /\ canvas = [width |-> r.width, height |-> r.height,
                 ops |-> DrawLines(MidRunLines(r, Seed(k), c), r)]
    /\ ctx = TRUE
    /\ mouse = MidRunMouse
    /\ frameId = 7
    /\ lastTime = << 1000 >>
    /\ listeners = {[type |-> t, closure |-> 1] :
                      t \in {"resize", "mousemove", "touchmove"}}
    /\ pending = {[id |-> 7, closure |-> 1]}
    /\ nextHandle = 8
    /\ now = 1000
    /\ cleanup = 1
    /\ hung = FALSE
    /\ last = "accept"
    /\ mounted = TRUE
    /\ steps = 0
    /\ stops = 0
    /\ frames = << << 1000 >> >>
    /\ inputSince = FALSE
    /\ held = Held(MidRunMouse)
    /\ probe = NoProbe(k, 1)

SpecMidRun == InitMidRun /\ [][Next]_vars

(***************************************************************************)
(* One run on a surface of 320 by 200: the effect runs, the pointer comes  *)
(* to rest at (160, 100) of the surface, from nowhere or from a corner,    *)
(* and the host then delivers a frame every 33 ms.                         *)
(***************************************************************************)
SettleFrames == 100

SettleRect == [width |-> 320, height |-> 200, left |-> 10, top |-> 5]

(* clientX, clientY of the point (160, 100) of the surface *)
SettleTarget == [x |-> 170, y |-> 105]

(* where the pointer may be before: two corners of the surface *)
SettleStarts == { [x |-> 10, y |-> 5], [x |-> 330, y |-> 205] }

AtTarget ==
  /\ mouse.set
  /\ mouse.x = Fx(SettleTarget.x - SettleRect.left)
  /\ mouse.y = Fx(SettleTarget.y - SettleRect.top)

SettleMount ==
  /\ Effect(SettleRect)
  /\ steps' = steps

SettleMove(e) ==
  /\ ~AtTarget
  /\ frames = << << >> >>
  /\ MouseMoveEvent(e)
  /\ steps' = steps

SettleFrame(cb) ==
  /\ AtTarget
  /\ Len(frames[cb.closure]) < SettleFrames
  /\ Frame(cb, minInterval)
  /\ steps' = steps

InitSettle == Init /\ surface = "ok"

NextSettle ==
  \/ SettleMount
  \/ \E e \in SettleStarts \cup {SettleTarget} : SettleMove(e)
  \/ \E cb \in pending : SettleFrame(cb)

SpecSettle == InitSettle /\ [][NextSettle]_vars

(***************************************************************************)
(* The loop under a host that keeps running the scheduled callback: the    *)
(* effect runs once, the host calls the callback 16 or 33 ms after the     *)
(* previous call for as long as its clock is below MaxNow, and React may   *)
(* tear the effect down.                                                   *)
(***************************************************************************)
MaxNow == 150

LoopMount(r) ==
  /\ lastTime = << >>
  /\ Effect(r)
  /\ steps' = steps

LoopFrame(cb, dt) ==
  /\ now + dt <= MaxNow
  /\ Frame(cb, dt)
  /\ steps' = steps

LoopTeardown ==
  /\ Teardown
  /\ steps' = steps

(* the host calls a scheduled callback *)
HostCalls == \E cb \in pending, dt \in FrameGaps : LoopFrame(cb, dt)

InitLoop == Init /\ surface = "ok"

NextLoop ==
  \/ \E r \in Rects : LoopMount(r)
  \/ HostCalls
  \/ LoopTeardown

SpecLoop == InitLoop /\ [][NextLoop]_vars /\ WF_vars(HostCalls)

(***************************************************************************)
(* The Noise object on its own: seed() and perlin2() called by a client.   *)
(***************************************************************************)
(* arguments of seed(), in 65536ths: fractions of (0, 1), 0, and integers *)
SeedValues == RandomSeeds \cup {40000, 65536 * 7, 65536 * 300}

(* arguments of perlin2(), in millionths: cell corners and inner points *)
SampleXs == {-3000000, 0, 2000000, 256000000, 7250000, 500000}

SampleYs == {-1000000, 0, 5000000, 511000000, 3400000, 750000}

(* the distance between a sampled point and the neighbours sampled with it *)
SampleSteps == {100, 10000}

(* the program, left as constructed *)
Idle ==
  UNCHANGED << surface, config, bounding, canvas, ctx, lines, mouse, frameId,
               lastTime, listeners, pending, nextHandle, now, cleanup, hung,
               last, mounted, steps, stops, frames, inputSince, held >>

(* noise.seed(k) *)
Reseed(k) ==
  /\ noise' = SeedOn(noise, k)
  /\ probe' = NoProbe(k, Min(probe.seeds + 1, 3))
  /\ Idle

(* noise.perlin2 at (x, y) and at the four points h away from it *)
Sample(x, y, h) ==
  /\ probe' = [probe EXCEPT !.x = x, !.y = y, !.h = h, !.calls = 1,
                            !.at = perlin2(noise, x, y),
                            !.west = perlin2(noise, x - h, y),
                            !.east = perlin2(noise, x + h, y),
                            !.north = perlin2(noise, x, y - h),
                            !.south = perlin2(noise, x, y + h)]
  /\ noise' = noise
  /\ Idle

InitNoise == Init /\ surface = "ok"

NextNoise ==
  \/ \E k \in SeedValues : Reseed(k)
  \/ \E x \in SampleXs, y \in SampleYs, h \in SampleSteps : Sample(x, y, h)

SpecNoise == InitNoise /\ [][NextNoise]_vars

(***************************************************************************)
(* Properties.                                                             *)
(***************************************************************************)
(* the engine was torn down and not mounted again *)
Stopped == ~mounted /\ stops >= 1 /\ cleanup # 0

(* the state a frame callback, an event or a teardown may change *)
engine == << bounding, canvas, ctx, lines, mouse, lastTime, frames >>

(* C2: within one run of the loop, the timestamps of two consecutive       *)
(* accepted frames differ by at least the minimum interval (33 ms).        *)
C2_AcceptedFramesApart ==
  \A g \in DOMAIN frames :
    \A i \in 1 .. Len(frames[g]) - 1 :
      frames[g][i + 1] - frames[g][i] >= minInterval

(* two frames were accepted in one run, the second just now *)
C2_Witness ==
  /\ last = "accept"
  /\ \E g \in DOMAIN frames : Len(frames[g]) >= 2

(* C3: a frame callback that comes less than the minimum interval after    *)
(* the last accepted frame changes neither the pointer state, the grid,    *)
(* lastTime nor the canvas; it replaces its own handle by one new pending  *)
(* callback, whose handle frameId holds.                                   *)
C3_DroppedFrameChangesNothing ==
  [][\A cb \in pending :
       (now' > now /\ cb \notin pending'
          /\ now' - lastTime[cb.closure] < minInterval)
       => /\ UNCHANGED << mouse, lines, lastTime, canvas, bounding, listeners >>
          /\ \E new \in pending' :
               /\ new \notin pending
               /\ pending' = (pending \ {cb}) \cup {new}
               /\ new.closure = cb.closure
               /\ frameId' = new.id]_vars

(* a frame was dropped after the pointer had moved and a frame was drawn *)
C3_Witness ==
  /\ last = "drop"
  /\ inputSince
  /\ \E g \in DOMAIN frames : Len(frames[g]) >= 1

(* C4: once torn down the engine is frozen: no frame callback is pending,  *)
(* no listener is attached, and no step changes the pointer state, the     *)
(* grid, the canvas or lastTime while it stays torn down.                  *)
C4_StoppedIsFrozen ==
  [][/\ Stopped' => pending' = {} /\ listeners' = {}
     /\ (Stopped /\ Stopped') => UNCHANGED engine]_vars

(* torn down after the pointer moved and a frame was accepted *)
C4_Witness ==
  /\ Stopped
  /\ mouse.set
  /\ \E g \in DOMAIN frames : Len(frames[g]) >= 1

(* C5: a second teardown in a row changes nothing: the grid, the pointer   *)
(* state, the canvas, the listeners, the pending callbacks and frameId     *)
(* are as the first teardown left them, and no callback is pending.        *)
C5_StopIsIdempotent ==
  [][(Cleanup /\ Stopped)
     => /\ UNCHANGED << engine, listeners, pending, frameId, nextHandle, hung >>
        /\ pending' = {}
        /\ listeners' = {}]_vars

(* the teardown ran twice in a row *)
C5_Witness == stops = 2 /\ last = "cleanup" /\ cleanup # 0

(* C6: with no canvas, no container or no 2-D context the effect does      *)
(* nothing: no grid, no scheduled callback, no listener, no frame handle,  *)
(* the canvas and the bounding rectangle untouched.                        *)
C6_InvalidSurfaceNeverStarts ==
  surface # "ok" =>
    /\ lines = << >>
    /\ pending = {}
    /\ listeners = {}
    /\ frameId = 0
    /\ cleanup = 0
    /\ lastTime = << >>
    /\ ~hung
    /\ canvas = [width |-> 300, height |-> 150, ops |-> << >>]
    /\ bounding = [width |-> 0, height |-> 0, left |-> 0, top |-> 0]

(* the effect ran on an invalid surface *)
C6_Witness == surface = "noContext" /\ last = "mountRefused" /\ mounted

(* C10: an accepted frame that no input event precedes (none since the     *)
(* previous accepted frame, or since construction) does not increase the   *)
(* smoothed speed.                                                         *)
C10_SmoothedSpeedNeverIncreases ==
  [][(frames' # frames /\ Len(frames') = Len(frames) /\ ~inputSince)
     => mouse'.vs <= mouse.vs]_vars

(* the points of a grid *)
PointsOf(ls) == UNION {{ls[i][j] : j \in DOMAIN ls[i]} : i \in DOMAIN ls}

(* C1: every point's cursor offset lies within maxCursorMove (60) on both  *)
(* axes, in every state.                                                   *)
C1_CursorOffsetClamped ==
  \A p \in PointsOf(lines) :
    /\ Abs(p.cursor.x) <= Fx(maxCursorMove)
    /\ Abs(p.cursor.y) <= Fx(maxCursorMove)

(* an accepted frame left a point at the clamp on both sides, still moving *)
(* outwards: without the clamp it would be beyond                          *)
C1_Witness ==
  /\ last = "accept"
  /\ steps >= 1
  /\ \E p \in PointsOf(lines) :
       /\ p.cursor.x = Fx(maxCursorMove) /\ p.cursor.vx > 1000
       /\ p.cursor.y = -Fx(maxCursorMove) /\ p.cursor.vy < -1000

(* n is Math.ceil(num / d), for d > 0 *)
IsCeil(n, num, d) == (n - 1) * d < num /\ num <= n * d

(* setLines has run and returned, with positive gaps *)
GridBuilt == ctx /\ ~hung /\ config.xGap > 0 /\ config.yGap > 0

(* C7: for positive gaps the grid has ceil((w + 100) / xGap) + 1 columns   *)
(* of ceil((h + 50) / yGap) + 1 points each: the padding is 100 on the     *)
(* width and 50 on the height.                                             *)
C7_GridShape ==
  GridBuilt =>
    /\ IsCeil(Len(lines) - 1, bounding.width + padWidth, config.xGap)
    /\ \A i \in DOMAIN lines :
         IsCeil(Len(lines[i]) - 1, bounding.height + padHeight, config.yGap)

(* a resize built the grid of a surface of 28 by 70 with gaps 48 and 30 *)
C7_Witness ==
  /\ last = "resize"
  /\ bounding.width = 28
  /\ config.xGap = 48
  /\ Len(lines) = 4
  /\ Len(lines[1]) = 5

(* C7 as stated: one padding gives both counts *)
C7_OnePadding ==
  GridBuilt =>
    \E pad \in 0 .. 400 :
      /\ IsCeil(Len(lines) - 1, bounding.width + pad, config.xGap)
      /\ \A i \in DOMAIN lines :
           IsCeil(Len(lines[i]) - 1, bounding.height + pad, config.yGap)

NoPoints(ls) == \A i \in DOMAIN ls : Len(ls[i]) = 0

(* C9: an accepted frame on a grid without points leaves the grid as it is *)
(* and draws nothing: the calls on the context are clearRect, beginPath    *)
(* and stroke, with no moveTo and no lineTo.                               *)
C9_EmptyGridIsNoOp ==
  [][(frames' # frames /\ Len(frames') = Len(frames) /\ NoPoints(lines))
     => /\ lines' = lines
        /\ canvas'.ops =
             << [op |-> "clearRect", x |-> bounding.width, y |-> bounding.height],
                [op |-> "beginPath", x |-> 0, y |-> 0],
                [op |-> "stroke", x |-> 0, y |-> 0] >>]_vars

(* a frame was accepted on a grid of columns that hold no point *)
C9_Witness ==
  /\ last = "accept"
  /\ Len(lines) >= 2
  /\ NoPoints(lines)
  /\ Len(canvas.ops) = 3

(* a step in which updateMouse ran: a mousemove, or a touchmove that *)
(* carried a touch                                                   *)
UpdateMouseRan == last' \in {"mousemove", "touchmove"}

(* C11: the first updateMouse (set false) puts the surface-relative        *)
(* coordinates in x, y, copies them to sx, sy and lx, ly and sets the      *)
(* flag; every later one changes x and y only.                             *)
C11_FirstInputSeeds ==
  [][UpdateMouseRan =>
       /\ mouse'.x = Fx(held'.x - bounding.left)
       /\ mouse'.y = Fx(held'.y - bounding.top)
       /\ mouse'.set
       /\ IF ~mouse.set
          THEN /\ mouse'.sx = mouse'.x /\ mouse'.sy = mouse'.y
               /\ mouse'.lx = mouse'.x /\ mouse'.ly = mouse'.y
          ELSE mouse' = [mouse EXCEPT !.x = mouse'.x, !.y = mouse'.y]]_vars

(* a second input moved the position away from the seeded lx, ly, sx, sy *)
C11_Witness ==
  /\ last = "mousemove"
  /\ mouse.set
  /\ mouse.x = Fx(40) /\ mouse.lx = 0 /\ mouse.sx = 0
  /\ mouse.y = Fx(30) /\ mouse.ly = 0 /\ mouse.sy = 0

(* C12: a pointer or touch event changes the pointer state only; a resize  *)
(* event changes the surface size and the grid only, and the grid it       *)
(* builds is at rest; neither draws, moves the throttle's timestamp or     *)
(* touches the scheduled callback; the canvas is drawn by accepted frames  *)
(* only.                                                                   *)
C12_HandlersDoNotSimulateOrDraw ==
  [][/\ last' \in {"mousemove", "touchmove", "touchmoveNoTouch"}
          => UNCHANGED << bounding, canvas, lines, lastTime, frames, pending,
                          frameId, ctx, listeners >>
     /\ last' = "resize"
          => /\ UNCHANGED << mouse, lastTime, frames, pending, frameId, ctx,
                             listeners >>
             /\ canvas'.ops = << >>
             /\ \A p \in PointsOf(lines') :
                  /\ p.cursor = [x |-> 0, y |-> 0, vx |-> 0, vy |-> 0]
                  /\ p.wave = [x |-> 0, y |-> 0]
     /\ (canvas'.ops # canvas.ops /\ canvas'.ops # << >>)
          => last' = "accept"]_vars

(* a resize after an accepted frame: the grid is rebuilt and not drawn *)
C12_Witness ==
  /\ last = "resize"
  /\ bounding.width = 28
  /\ Len(lines) = 9
  /\ canvas.ops = << >>
  /\ \E g \in DOMAIN frames : Len(frames[g]) >= 1

(* C13: perlin2 is 0 at every point of integer coordinates, for every seed *)
C13_ZeroAtLatticePoints ==
  (probe.calls > 0 /\ probe.x % 1000000 = 0 /\ probe.y % 1000000 = 0)
    => probe.at = 0

(* a lattice point sampled after a reseed, its neighbours being non-zero *)
C13_Witness ==
  /\ probe.calls > 0
  /\ probe.seeds >= 2
  /\ probe.x = 256000000 /\ probe.y = -1000000
  /\ probe.at = 0
  /\ probe.west # 0 /\ probe.east # 0

(* C14: whatever the tables held before, seed(v) leaves the tables of a    *)
(* fresh object seeded with v, and perlin2 returns that object's values.   *)
C14_SeedDeterminesTables ==
  /\ noise = Seed(probe.seed)
  /\ probe.calls > 0
       => probe.at = perlin2(Seed(probe.seed), probe.x, probe.y)

(* the third seed() on one object, then a sample that is not 0 *)
C14_Witness ==
  /\ probe.seeds = 3
  /\ probe.calls > 0
  /\ probe.at # 0

(* the tolerance of the comparisons of C16, in ten-thousandths: the        *)
(* rounding of three samples and the curvature of fade over one step       *)
Tolerance == 8

(* C16: perlin2 is continuous (two samples 0.0001 apart differ by at most  *)
(* the tolerance, at cell boundaries and inside cells), and across a cell  *)
(* boundary the slopes on the two sides, taken over 0.01, agree.           *)
C16_ContinuousAndSmooth ==
  /\ (probe.calls > 0 /\ probe.h = 100)
       => /\ Abs(probe.at - probe.west) <= Tolerance
          /\ Abs(probe.east - probe.at) <= Tolerance
          /\ Abs(probe.at - probe.north) <= Tolerance
          /\ Abs(probe.south - probe.at) <= Tolerance
  /\ (probe.calls > 0 /\ probe.h = 10000 /\ probe.x % 1000000 = 0)
       => Abs((probe.east - probe.at) - (probe.at - probe.west)) <= Tolerance
  /\ (probe.calls > 0 /\ probe.h = 10000 /\ probe.y % 1000000 = 0)
       => Abs((probe.south - probe.at) - (probe.at - probe.north)) <= Tolerance

(* a point on a vertical cell boundary, between two cells, where the noise *)
(* has a slope of more than 0.3 across the boundary                        *)
C16_Witness ==
  /\ probe.calls > 0
  /\ probe.h = 10000
  /\ probe.x % 1000000 = 0
  /\ probe.y % 1000000 # 0
  /\ probe.east - probe.at > 30
  /\ probe.at - probe.west > 30

(* the frame from which the response counts as settled, and the change of  *)
(* an offset between two frames that counts as small, in thousandths of a  *)
(* pixel                                                                   *)
SettleBy == 85

SettleThreshold == 500

(* C15: on the 320 by 200 surface with the pointer at rest at (160, 100),  *)
(* through 100 accepted frames every cursor offset stays within            *)
(* maxCursorMove on both axes, and from frame 85 on no offset changes by   *)
(* more than half a pixel from one frame to the next.                      *)
C15_ResponseSettles ==
  [][/\ \A p \in PointsOf(lines') :
          /\ Abs(p.cursor.x) <= Fx(maxCursorMove)
          /\ Abs(p.cursor.y) <= Fx(maxCursorMove)
     /\ (last' = "accept" /\ Len(frames'[1]) >= SettleBy /\ frames' # frames)
          => \A i \in DOMAIN lines : \A j \in DOMAIN lines[i] :
               /\ Abs(lines'[i][j].cursor.x - lines[i][j].cursor.x)
                     <= SettleThreshold
               /\ Abs(lines'[i][j].cursor.y - lines[i][j].cursor.y)
                     <= SettleThreshold]_vars

(* the hundredth frame after the pointer came from a corner: a point is   *)
(* still displaced by more than a pixel                                   *)
C15_Witness ==
  /\ frames # << >>
  /\ Len(frames[1]) = SettleFrames
  /\ AtTarget
  /\ Len(lines) = 28
  /\ Len(lines[1]) = 8
  /\ \E p \in PointsOf(lines) : Abs(p.cursor.x) > 1000

(* C17: at most one frame callback is scheduled at any time, and it        *)
(* belongs to the run of the effect that is mounted: a callback replaces   *)
(* itself by its one successor, and a new run starts after the previous    *)
(* run's callback was cancelled.                                           *)
C17_OneCallbackChain ==
  /\ Cardinality(pending) <= 1
  /\ \A cb \in pending : mounted /\ cb.closure = cleanup /\ cb.id = frameId

(* the callback of a second run of the effect has run *)
C17_Witness ==
  /\ Len(lastTime) = 2
  /\ last \in {"accept", "drop"}
  /\ Cardinality(pending) = 1
  /\ \A cb \in pending : cb.closure = 2

(* C18: an accepted frame sets lastTime to its timestamp, advances the     *)
(* pointer state once, moves the whole grid once with the advanced pointer *)
(* state and the timestamp, draws the grid as moved, with one clearRect of *)
(* the full surface before any other call, and leaves one new request.     *)
C18_AcceptedFrameOrder ==
  [][(last' = "accept" /\ frames' # frames) =>
       LET g == CHOOSE c \in DOMAIN frames : frames'[c] # frames[c]
           moved == MovePoints(lines, Advance(mouse), noise, now')
       IN  /\ lastTime' = [lastTime EXCEPT ![g] = now']
           /\ frames' = [frames EXCEPT ![g] = Append(@, now')]
           /\ mouse' = Advance(mouse)
           /\ lines' = moved
           /\ canvas'.ops = DrawLines(moved, bounding)
           /\ canvas'.ops[1] =
                [op |-> "clearRect", x |-> bounding.width, y |-> bounding.height]
           /\ \A k \in 2 .. Len(canvas'.ops) : canvas'.ops[k].op # "clearRect"
           /\ canvas'.ops[Len(canvas'.ops)].op = "stroke"
           /\ Cardinality(pending') = 1
           /\ \A cb \in pending' :
                /\ cb.closure = g
                /\ cb.id = frameId'
                /\ cb.id \notin {c.id : c \in pending}]_vars

(* a second accepted frame, after an input: the grid drawn is the grid as *)
(* this frame moved it, which differs from the grid of the frame before   *)
C18_Witness ==
  /\ last = "accept"
  /\ \E g \in DOMAIN frames : Len(frames[g]) >= 2
  /\ mouse.set
  /\ mouse.v > 0
  /\ Len(canvas.ops) > 3
  /\ canvas.ops = DrawLines(lines, bounding)
  /\ \E p \in PointsOf(lines) : p.cursor.vx # 0

(* the pointer state the next advance would leave if, since the last one, *)
(* one event with the coordinates of the last event had arrived           *)
AfterOneInput == Advance(UpdateMouse(held.base, held.x, held.y, bounding))

(* C19 as stated: the advance runs once per accepted frame, and from any   *)
(* pointer state the events since the last advance leave, after the        *)
(* advance, the state one event with the last coordinates would leave.     *)
C19_InputsCoalesceFromAnyState ==
  [][/\ (last' = "accept" /\ frames' # frames) => mouse' = Advance(mouse)
     /\ last' = "drop" => mouse' = mouse
     /\ held'.n >= 1 => Advance(mouse') = AfterOneInput']_vars

(* C19 amended: the same from a pointer state that is initialised (set);   *)
(* from one that is not, the position is the last event's, and sx, sy, lx, *)
(* ly are those of the first event.                                        *)
C19_InputsCoalesce ==
  [][/\ (last' = "accept" /\ frames' # frames) => mouse' = Advance(mouse)
     /\ last' = "drop" => mouse' = mouse
     /\ (held'.n >= 1 /\ held'.base.set) => Advance(mouse') = AfterOneInput'
     /\ (held'.n >= 1 /\ ~held'.base.set)
          => /\ mouse'.x = Fx(held'.x - bounding'.left)
             /\ mouse'.y = Fx(held'.y - bounding'.top)
             /\ mouse'.set
             /\ held.n >= 1 => /\ mouse'.sx = mouse.sx /\ mouse'.sy = mouse.sy
                               /\ mouse'.lx = mouse.lx /\ mouse'.ly = mouse.ly]_vars

(* two events at different places since the last accepted frame, which had *)
(* left the pointer state initialised                                      *)
C19_Witness ==
  /\ held.n = 2
  /\ held.base.set
  /\ mouse.x # held.base.x
  /\ mouse.sx = held.base.sx
  /\ Advance(mouse).v > 0

(* the loop is running: the effect ran to its end and was not torn down *)
Running == mounted /\ cleanup # 0 /\ ~hung /\ stops = 0

(* the frames the running loop has accepted *)
Accepted == IF Running THEN Len(frames[cleanup]) ELSE 0

(* C20: while the loop runs, one callback is scheduled, and every call of  *)
(* it, dropped or accepted, schedules its one successor; and as long as    *)
(* the host keeps calling (its clock at least two intervals below the      *)
(* bound) a running loop accepts one more frame, unless it is stopped.     *)
C20_LoopNeverStalls ==
  /\ [](Running => Cardinality(pending) = 1)
  /\ [][(last' \in {"accept", "drop"} /\ nextHandle' # nextHandle)
          => /\ Cardinality(pending') = 1
             /\ \A cb \in pending' : cb.id = nextHandle /\ cb.id = frameId'
             /\ \A cb \in pending' : \E c \in pending : c.closure = cb.closure]_vars
  /\ \A n \in 0 .. (MaxNow \div minInterval) :
       (Running /\ Accepted = n /\ now <= MaxNow - 2 * minInterval)
         ~> (~Running \/ Accepted > n)

(* two frames were dropped and then a second frame was accepted *)
C20_Witness ==
  /\ Running
  /\ last = "accept"
  /\ Accepted = 2
  /\ nextHandle >= 6
  /\ frames[cleanup][2] - frames[cleanup][1] > minInterval

(* C21: a resize replaces the grid: every point of the grid it leaves has  *)
(* the four fields of a new point, with the wave offset, the cursor offset  *)
(* and the cursor velocity all zero, and a base position on the lattice of  *)
(* the new size (xStart + xGap * i, yStart + yGap * j, the starts being     *)
(* half of what the columns and rows exceed the surface by); the column    *)
(* and row counts are those of the new size.                               *)
C21_ResizeReplacesGrid ==
  [][(last' = "resize" /\ ~hung') =>
       LET w == bounding'.width
           h == bounding'.height
           totalLines == Len(lines') - 1
       IN  /\ IsCeil(totalLines, w + padWidth, config.xGap)
           /\ \A i \in DOMAIN lines' :
                LET totalPoints == Len(lines'[i]) - 1
                IN  /\ IsCeil(totalPoints, h + padHeight, config.yGap)
                    /\ \A j \in DOMAIN lines'[i] :
                         LET p == lines'[i][j]
                         IN  /\ DOMAIN p = {"x", "y", "wave", "cursor"}
                             /\ p.wave = [x |-> 0, y |-> 0]
                             /\ p.cursor.x = 0 /\ p.cursor.y = 0
                             /\ p.cursor.vx = 0 /\ p.cursor.vy = 0
                             /\ 2 * p.x = Fx(w - config.xGap * totalLines)
                                           + 2 * Fx(config.xGap * (i - 1))
                             /\ 2 * p.y = Fx(h - config.yGap * totalPoints)
                                           + 2 * Fx(config.yGap * (j - 1))]_vars

(* a resize straight after an accepted frame of the run, which left wave   *)
(* offsets and cursor velocities in the grid: the new grid is at rest      *)
C21_Witness ==
  /\ last = "resize"
  /\ steps = 2
  /\ Len(frames[1]) = 2
  /\ bounding.width = 28
  /\ Len(lines) = 9
  /\ lines[1][1].cursor.vx = 0

(* the fields of the pointer state other than the smoothed position *)
PointerFields == {"x", "y", "lx", "ly", "v", "vs", "a", "set"}

(* C22 as stated: a resize event puts the pointer state back to its        *)
(* initial value and leaves the smoothed position as it was.               *)
C22_ResizeResetsPointer ==
  [][last' = "resize" =>
       /\ mouse'.sx = mouse.sx /\ mouse'.sy = mouse.sy
       /\ \A f \in PointerFields : mouse'[f] = InitialMouse[f]]_vars

(* C22 amended: a resize event changes no field of the pointer state: the  *)
(* smoothed position has its value of before the event, and so have the    *)
(* position, the last position, the speed, the smoothed speed, the angle   *)
(* and the initialised flag.                                               *)
C22_ResizeKeepsPointer ==
  [][last' = "resize" =>
       /\ mouse'.sx = mouse.sx /\ mouse'.sy = mouse.sy
       /\ \A f \in PointerFields : mouse'[f] = mouse[f]]_vars

(* a resize after a pointer event and an accepted frame: the follower has  *)
(* moved off its initial position, and the position, the speed and the     *)
(* flag are not those of the initial state                                 *)
C22_Witness ==
  /\ last = "resize"
  /\ mouse.set
  /\ mouse.sx # InitialMouse.sx
  /\ mouse.x # InitialMouse.x
  /\ mouse.vs > 0
  /\ mouse.lx = mouse.x

(* C23: in every state the smoothed speed of the pointer lies between 0    *)
(* and the maximum (60), however far the pointer moved between two         *)
(* accepted frames.                                                        *)
C23_SmoothedSpeedBounded ==
  /\ 0 <= mouse.vs
  /\ mouse.vs <= Fx(maxSpeed)

(* an accepted frame after the pointer jumped by more than 900 px, the     *)
(* smoothed speed being at 60 before: the blend gives 114, the cap 60      *)
C23_Witness ==
  /\ last = "accept"
  /\ steps >= 1
  /\ mouse.v > Fx(900)
  /\ mouse.vs = Fx(maxSpeed)

(* the points of the grid after the step that lie at l or more from the    *)
(* smoothed position of the pointer changed their cursor velocity by the   *)
(* spring and friction terms only                                          *)
NoImpulseFrom(l) ==
  \A i \in DOMAIN lines : \A j \in DOMAIN lines[i] :
    LET p == lines[i][j]
        q == lines'[i][j]
    IN  Hypot(p.x - mouse'.sx, p.y - mouse'.sy) >= l =>
          /\ q.cursor.vx = Mul(p.cursor.vx + Mul(0 - p.cursor.x, tension), friction)
          /\ q.cursor.vy = Mul(p.cursor.vy + Mul(0 - p.cursor.y, tension), friction)

(* the pointer's smoothed speed has never been beyond 120, nor has the     *)
(* radius Math.max(120, vs): the points at 120 or more from the follower   *)
(* receive no impulse in an accepted frame                                 *)
RadiusIsMinimum ==
  [][last' = "accept" =>
       /\ Max(Fx(minRadius), mouse'.vs) = Fx(minRadius)
       /\ NoImpulseFrom(Fx(minRadius))]_vars

(* C24 as stated: in an accepted frame the radius is the larger of 120 and *)
(* the smoothed speed, and it is beyond 120 when the pointer moves at its  *)
(* fastest (the smoothed speed at its maximum); a point at the radius or   *)
(* further from the smoothed position receives no impulse.                 *)
C24_RadiusWidensWithSpeed ==
  [][last' = "accept" =>
       LET l == Max(Fx(minRadius), mouse'.vs)
       IN  /\ mouse'.vs = Fx(maxSpeed) => l > Fx(minRadius)
           /\ NoImpulseFrom(l)]_vars

(* an accepted frame with the smoothed speed at its maximum, after a jump  *)
(* of the pointer of more than 900 px, and a point of the grid at 120 or   *)
(* more from the follower                                                  *)
C24_Witness ==
  /\ last = "accept"
  /\ mouse.vs = Fx(maxSpeed)
  /\ mouse.v > Fx(900)
  /\ Radius(mouse) = Fx(minRadius)
  /\ \E p \in PointsOf(lines) :
       /\ Hypot(p.x - mouse.sx, p.y - mouse.sy) >= Fx(minRadius)
       /\ Hypot(p.x - mouse.sx, p.y - mouse.sy) < Fx(minRadius) + Fx(maxSpeed)

(* basePosition + waveOffset, with cursorOffset when displaced, as issued  *)
(* to the surface: rounded to one decimal                                  *)
DrawnAt(p, displaced) ==
  [x |-> RDiv(p.x + p.wave.x + (IF displaced THEN p.cursor.x ELSE 0), 100) * 100,
   y |-> RDiv(p.y + p.wave.y + (IF displaced THEN p.cursor.y ELSE 0), 100) * 100]

(* the number of points of each column of the grid *)
ColumnLen == IF lines = << >> THEN 0 ELSE Len(lines[1])

(* the number of calls drawn for one column *)
ColumnCalls == IF ColumnLen = 0 THEN 0 ELSE ColumnLen + 2

(* the index in canvas.ops before the first call of column i *)
ColumnBase(i) == 2 + (i - 1) * ColumnCalls

(* the k-th call on the surface is the call name at the position pos *)
Called(k, name, pos) ==
  /\ canvas.ops[k].op = name
  /\ canvas.ops[k].x = pos.x
  /\ canvas.ops[k].y = pos.y

(* C25 as stated: the positions of a column's sub-path, its start and the  *)
(* ends of its segments, are the displaced positions of its intermediate   *)
(* points and the undisplaced position of its last point.                  *)
C25_DrawnPositionsAsStated ==
  (last = "accept" /\ steps >= 1 /\ canvas.ops # << >> /\ ColumnLen >= 1) =>
    \A i \in DOMAIN lines :
      \A k \in ColumnBase(i) + 1 .. ColumnBase(i) + 1 + ColumnLen :
        \E j \in 1 .. ColumnLen :
          LET pos == DrawnAt(lines[i][j], j # ColumnLen)
          IN  canvas.ops[k].x = pos.x /\ canvas.ops[k].y = pos.y

(* C25 amended: for every column of n >= 1 points the renderer starts a    *)
(* sub-path at the first point WITHOUT its cursor offset, then draws a     *)
(* segment to every point in order, the points of index < n-1 at           *)
(* basePosition + waveOffset + cursorOffset and the last one at            *)
(* basePosition + waveOffset, and then moves to that undisplaced last      *)
(* point; the next column starts with a move, so that no segment joins two *)
(* columns; positions are rounded to one decimal.                          *)
C25_ColumnPaths ==
  canvas.ops # << >> =>
    /\ Len(canvas.ops) = 3 + Len(lines) * ColumnCalls
    /\ canvas.ops[2].op = "beginPath"
    /\ canvas.ops[Len(canvas.ops)].op = "stroke"
    /\ ColumnLen >= 1 =>
         \A i \in DOMAIN lines :
           /\ Len(lines[i]) = ColumnLen
           /\ Called(ColumnBase(i) + 1, "moveTo", DrawnAt(lines[i][1], FALSE))
           /\ \A j \in 1 .. ColumnLen :
                Called(ColumnBase(i) + 1 + j, "lineTo",
                       DrawnAt(lines[i][j], j # ColumnLen))
           /\ Called(ColumnBase(i) + ColumnLen + 2, "moveTo",
                     DrawnAt(lines[i][ColumnLen], FALSE))

(* an accepted frame drew a column of four points whose first and last     *)
(* points both carry a cursor offset of more than 1 px                     *)
C25_Witness ==
  /\ last = "accept"
  /\ steps >= 1
  /\ canvas.ops # << >>
  /\ ColumnLen = 4
  /\ \E i \in DOMAIN lines :
       /\ Abs(lines[i][1].cursor.x) > 1000
       /\ Abs(lines[i][ColumnLen].cursor.x) > 1000
       /\ Called(ColumnBase(i) + 1, "moveTo", DrawnAt(lines[i][1], FALSE))
       /\ Called(ColumnBase(i) + 2, "lineTo", DrawnAt(lines[i][1], TRUE))

(* C26: a grid built with positive gaps is centred on the surface: the x  *)
(* of the first and of the last column add up to the surface width, the y  *)
(* of the first and of the last row to the surface height; neighbouring    *)
(* columns are xGap apart and neighbouring rows yGap apart, every point of *)
(* a column having the column's x and every point of a row the row's y.    *)
C26_LatticeCentred ==
  (GridBuilt /\ lines # << >>) =>
    /\ lines[1][1].x + lines[Len(lines)][1].x = Fx(bounding.width)
    /\ lines[1][1].y + lines[1][Len(lines[1])].y = Fx(bounding.height)
    /\ \A i \in DOMAIN lines : \A j \in DOMAIN lines[i] :
         /\ lines[i][j].x = lines[i][1].x
         /\ lines[i][j].y = lines[1][j].y
         /\ i > 1 => lines[i][j].x - lines[i - 1][j].x = Fx(config.xGap)
         /\ j > 1 => lines[i][j].y - lines[i][j - 1].y = Fx(config.yGap)

(* a resize built the grid of a surface of 28 by 70 with gaps 48 and 30:   *)
(* columns from -58 to 86, rows from -25 to 95                             *)
C26_Witness ==
  /\ last = "resize"
  /\ GridBuilt
  /\ config.xGap = 48
  /\ bounding.width = 28
  /\ lines[1][1].x = Fx(-58)
  /\ lines[Len(lines)][1].x = Fx(86)
  /\ lines[1][1].y = Fx(-25)
  /\ lines[1][Len(lines[1])].y = Fx(95)

====
